---- MODULE Spec2Model ----
(***************************************************************************)
(* Vocabulary quiz generator (Flask app): the /make handler (row           *)
(* selection, sampling, rendering, storage, daily quota) and the document  *)
(* combiner handlers (/download_zip, /download_merge_questions).           *)
(***************************************************************************)
EXTENDS Integers, Sequences, FiniteSets, TLC

\* ------------------------------------------------------------------------
\* Bounds of the model
\* ------------------------------------------------------------------------
MaxRows == 2
MaxRequests == 2
MaxDocs == 3
MaxPairs == 2
MaxPages == 3
MaxCells == 3
MaxQuotaRequests == 6
MaxDays == 3

\* ------------------------------------------------------------------------
\* Program constants (config.py defaults)
\* ------------------------------------------------------------------------
PUBLIC_MAX_SETS_PER_REQUEST == 2
PUBLIC_MAX_SETS_PER_DAY == 10
AUTH_MAX_SETS_PER_REQUEST == 0
AUTH_MAX_SETS_PER_DAY == 0
ABSOLUTE_MAX_SETS_PER_REQUEST == 100
ABSOLUTE_MAX_SETS_PER_DAY == 500

\* ------------------------------------------------------------------------
\* Spreadsheet cells.  A cell is [k, v]:
\*   k = "int"  : integer v
\*   k = "half" : the non-integer number v/2 (v odd)
\*   k = "text" : the string v
\*   k = "nan"  : blank cell (pandas NaN)
\*   k = "absent": the column does not exist in the table
\* ------------------------------------------------------------------------
IntCell(n) == [k |-> "int", v |-> n]
HalfCell(h) == [k |-> "half", v |-> h]
TextCell(s) == [k |-> "text", v |-> s]
NanCell == [k |-> "nan", v |-> 0]
AbsentCell == [k |-> "absent", v |-> 0]

\* int(s) of Python on the form strings used by the model: surrounding
\* blanks are accepted, anything that is not an integer literal raises
\* ValueError (ok = FALSE).
ParseInt(s) ==
    CASE s = "0" -> [ok |-> TRUE, v |-> 0]
      [] s = "1" -> [ok |-> TRUE, v |-> 1]
      [] s = "2" -> [ok |-> TRUE, v |-> 2]
      [] s = " 2 " -> [ok |-> TRUE, v |-> 2]
      [] s = "3" -> [ok |-> TRUE, v |-> 3]
      [] s = "100" -> [ok |-> TRUE, v |-> 100]
      [] s = "101" -> [ok |-> TRUE, v |-> 101]
      [] s = "-1" -> [ok |-> TRUE, v |-> -1]
      [] OTHER -> [ok |-> FALSE, v |-> 0]

\* pd.to_numeric(series, errors="coerce") on one cell: the value in halves,
\* or ok = FALSE for NaN.  Numeric strings are parsed, other text and blank
\* cells become NaN.
to_numeric(c) ==
    CASE c.k = "int" -> [ok |-> TRUE, h |-> 2 * c.v]
      [] c.k = "half" -> [ok |-> TRUE, h |-> c.v]
      [] c.k = "text" ->
            IF ParseInt(c.v).ok
            THEN [ok |-> TRUE, h |-> 2 * ParseInt(c.v).v]
            ELSE [ok |-> FALSE, h |-> 0]
      [] OTHER -> [ok |-> FALSE, h |-> 0]

\* Series.astype(int) on a float value given in halves: truncation toward 0.
astype_int(h) == IF h >= 0 THEN h \div 2 ELSE -((-h) \div 2)

\* dtype of a column as pandas infers it: "object" when some cell is text,
\* "float" when numbers are mixed with blanks or are non-integer, else "int".
ColumnDtype(cells) ==
    IF \E i \in 1..Len(cells) : cells[i].k = "text" THEN "object"
    ELSE IF \E i \in 1..Len(cells) : cells[i].k \in {"nan", "half"} THEN "float"
    ELSE "int"

\* Series.astype(str) on one cell of a column of the given dtype.
IntStr(n) ==
    CASE n = 1 -> "1" [] n = 2 -> "2" [] n = 3 -> "3" [] n = 0 -> "0" [] OTHER -> "n"
FloatStr(h) ==
    CASE h = 2 -> "1.0" [] h = 4 -> "2.0" [] h = 6 -> "3.0" [] h = 5 -> "2.5" [] OTHER -> "f"
astype_str(c, dtype) ==
    CASE c.k = "text" -> c.v
      [] c.k = "nan" -> "nan"
      [] c.k = "int" -> IF dtype = "float" THEN FloatStr(2 * c.v) ELSE IntStr(c.v)
      [] c.k = "half" -> FloatStr(c.v)
      [] OTHER -> "absent"

\* ------------------------------------------------------------------------
\* Tables: the content of the uploaded .xlsx file
\* ------------------------------------------------------------------------
Columns == {"word", "meaning", "number", "section"}

\* Representative spreadsheet rows (all four cells given; cells of columns
\* the table does not have are blanked by MkTable).
RowKinds ==
    { [number |-> IntCell(1), section |-> TextCell("A"),
       word |-> TextCell("apple"), meaning |-> TextCell("ringo")],
      [number |-> HalfCell(5), section |-> TextCell("B"),
       word |-> TextCell("bus"), meaning |-> NanCell],
      [number |-> TextCell("x"), section |-> NanCell,
       word |-> TextCell("dog"), meaning |-> TextCell("inu")],
      [number |-> IntCell(3), section |-> IntCell(1),
       word |-> TextCell("<b"), meaning |-> TextCell("neko")] }

ColumnSets ==
    { {"word", "meaning", "number", "section"},
      {"word", "meaning", "number"},
      {"word", "meaning", "section"},
      {"word", "meaning"},
      {"word", "number", "section"},
      {"meaning", "number"} }

SeqsUpTo(S, n) == UNION { [1..m -> S] : m \in 0..n }

MkRow(cols, kind, i) ==
    [src |-> i,
     number |-> IF "number" \in cols THEN kind.number ELSE AbsentCell,
     section |-> IF "section" \in cols THEN kind.section ELSE AbsentCell,
     word |-> IF "word" \in cols THEN kind.word ELSE AbsentCell,
     meaning |-> IF "meaning" \in cols THEN kind.meaning ELSE AbsentCell,
     secstr |-> "absent"]

MkTable(cols, kinds) ==
    [readable |-> TRUE, cols |-> cols,
     rows |-> [i \in 1..Len(kinds) |-> MkRow(cols, kinds[i], i)]]

\* A file that openpyxl cannot parse.
CorruptTable == [readable |-> FALSE, cols |-> {}, rows |-> <<>>]

Tables ==
    { MkTable(cols, kinds) : cols \in ColumnSets, kinds \in SeqsUpTo(RowKinds, MaxRows) }
    \cup {CorruptTable}

\* ------------------------------------------------------------------------
\* State
\* ------------------------------------------------------------------------
VARIABLES
    table,      \* content of the uploaded file uploads/a.xlsx
    use_r2,     \* cfg.USE_R2
    today,      \* the UTC day _today_utc() returns
    usage,      \* _usage_by_day: (day, tier, client) -> sets consumed
    pdfs,       \* generated documents held by the storage / PDF_LOCAL_DIR
    pc,         \* position of the request being served
    lcl,        \* local variables of the handler being served
    resp,       \* response of the handler
    nreq        \* number of requests served so far

vars == <<table, use_r2, today, usage, pdfs, pc, lcl, resp, nreq>>

UploadedFile == "uploads/a.xlsx"
Clients == {"c1"}

\* Values of the form fields
FilenameTokens == {UploadedFile, "uploads/zz.xlsx", ""}
ModeTokens == {"en-ja", "ja-en", "xx"}
CountTokens == {"1", "3", "0", "x"}
SetsTokens == {"", "2", "3", "0", "x", "101"}
BoundTokens == {"1", "2", "3", "x"}
SectionChoices == { {}, {"A"}, {"B"}, {"A", "B"}, {"1"}, {"nan"}, {"C"} }
Uids == {"u1", "u2"}
Stamps == {"20260101-000000"}

NoLocals ==
    [handler |-> "none", filename |-> "unread", mode |-> "unread",
     nq_tok |-> "unread", ns_tok |-> "unread",
     num_questions |-> 0, num_sets |-> 0, is_auth |-> FALSE, cid |-> "none",
     key |-> <<>>, used |-> 0,
     selmode |-> "none", sections |-> {}, start_tok |-> "unread", end_tok |-> "unread",
     start_num |-> 0, end_num |-> 0,
     missing |-> {}, df |-> <<>>, pool |-> <<>>, n |-> 0, stamp |-> "none",
     set_idx |-> 0, sample |-> <<>>, download_args |-> <<>>, log |-> <<>>]

NoResp == [outcome |-> "none", args |-> <<>>, body |-> <<>>]

\* ------------------------------------------------------------------------
\* Quota (app.py: _tier, enforce_sets_limits, consume_daily_quota)
\* ------------------------------------------------------------------------
_tier(is_auth) == IF is_auth THEN "auth" ELSE "public"

\* dict.get(key, 0)
UsageGet(u, key) == IF key \in DOMAIN u THEN u[key] ELSE 0

\* TRUE when enforce_sets_limits aborts with 403
enforce_sets_limits(num_sets, is_auth) ==
    \/ num_sets > ABSOLUTE_MAX_SETS_PER_REQUEST
    \/ /\ is_auth
       /\ AUTH_MAX_SETS_PER_REQUEST > 0
       /\ num_sets > AUTH_MAX_SETS_PER_REQUEST
    \/ /\ ~is_auth
       /\ num_sets > PUBLIC_MAX_SETS_PER_REQUEST

\* _prune_usage(keep_days=2): keep the entries of the two latest days
_prune_usage(u) ==
    LET dates == { k[1] : k \in DOMAIN u }
        kept == { d \in dates : Cardinality({ e \in dates : e > d }) < 2 }
    IN  IF Cardinality(dates) <= 2 THEN u
        ELSE [k \in { j \in DOMAIN u : j[1] \in kept } |-> u[k]]

\* Variant of consume_daily_quota: a request is refused only once the limit
\* has been reached
consume_daily_quota_lax(u, num_sets, is_auth, cid) ==
    LET abs_limit == ABSOLUTE_MAX_SETS_PER_DAY
        tier_raw == IF is_auth THEN AUTH_MAX_SETS_PER_DAY ELSE PUBLIC_MAX_SETS_PER_DAY
        tier_limit == IF tier_raw <= 0 THEN abs_limit ELSE tier_raw
        key == <<today, _tier(is_auth), cid>>
        used == UsageGet(u, key)
    IN  IF used >= tier_limit \/ used >= abs_limit
        THEN [ok |-> FALSE, u |-> u, key |-> key, used |-> used]
        ELSE [ok |-> TRUE, key |-> key, used |-> used,
              u |-> _prune_usage([k \in DOMAIN u \cup {key} |->
                                     IF k = key THEN used + num_sets ELSE u[k]])]

\* consume_daily_quota: ok = FALSE is abort(429); otherwise u is the new
\* dict.  key and used are the function's locals of the same names.
consume_daily_quota(u, num_sets, is_auth, cid) ==
    LET abs_limit == ABSOLUTE_MAX_SETS_PER_DAY
        tier_raw == IF is_auth THEN AUTH_MAX_SETS_PER_DAY ELSE PUBLIC_MAX_SETS_PER_DAY
        tier_limit == IF tier_raw <= 0 THEN abs_limit ELSE tier_raw
        key == <<today, _tier(is_auth), cid>>
        used == UsageGet(u, key)
    IN  IF used + num_sets > tier_limit \/ used + num_sets > abs_limit
        THEN [ok |-> FALSE, u |-> u, key |-> key, used |-> used]
        ELSE [ok |-> TRUE, key |-> key, used |-> used,
              u |-> _prune_usage([k \in DOMAIN u \cup {key} |->
                                     IF k = key THEN used + num_sets ELSE u[k]])]

\* parse_optional_positive_int(raw, default=1, min_v=1, max_v=ABSOLUTE_MAX...)
parse_optional_positive_int(raw, default, min_v, max_v) ==
    IF raw = "" THEN [ok |-> TRUE, v |-> default]
    ELSE IF ~ParseInt(raw).ok THEN [ok |-> FALSE, v |-> 0]
    ELSE IF ParseInt(raw).v < min_v THEN [ok |-> FALSE, v |-> 0]
    ELSE IF ParseInt(raw).v > max_v THEN [ok |-> FALSE, v |-> 0]
    ELSE [ok |-> TRUE, v |-> ParseInt(raw).v]

Min(a, b) == IF a <= b THEN a ELSE b

\* ------------------------------------------------------------------------
\* Layout engine (services/pdf_service.py)
\* ------------------------------------------------------------------------
\* str(x) of Python on a cell value
PyStr(c) ==
    CASE c.k = "text" -> c.v
      [] c.k = "nan" -> "nan"
      [] c.k = "int" -> IntStr(c.v)
      [] c.k = "half" -> FloatStr(c.v)
      [] OTHER -> "absent"

\* try: disp_no = int(r["number"])  except Exception: disp_no = r["number"]
\* followed by NumberBox.draw's str(self.number)
DispNo(c) ==
    CASE c.k = "int" -> IntStr(c.v)
      [] c.k = "half" -> IntStr(astype_int(c.v))
      [] c.k = "text" -> IF ParseInt(c.v).ok THEN IntStr(ParseInt(c.v).v) ELSE c.v
      [] OTHER -> "nan"

\* Paragraph(text, style): reportlab parses the text as inline markup and
\* raises ValueError on an unterminated tag.
ParagraphOk(text) == text # "<b"

Gap == [box |-> "gap", text |-> "", shown |-> FALSE]
NumberBox(c) == [box |-> "number", text |-> DispNo(c), shown |-> TRUE]
RoundedBox(text) == [box |-> "prompt", text |-> text, shown |-> TRUE]
\* Variant of AnswerBox: the text is drawn whatever with_answers says
AnswerBoxAlways(with_answers, text) ==
    [box |-> "answer", text |-> text, shown |-> TRUE]

\* AnswerBox.draw: the text is drawn only "if self.answer" (not None, not "")
AnswerBox(with_answers, text) ==
    IF with_answers /\ text # ""
    THEN [box |-> "answer", text |-> text, shown |-> TRUE]
    ELSE [box |-> "answer", text |-> "", shown |-> FALSE]

NumColWidths == 11

PadRow(row) == row \o [j \in 1..(NumColWidths - Len(row)) |-> Gap]

\* Variant of BuildRows: every record gets a grid row of its own, in the
\* left lane
BuildRowsSingleLane(df, i, data, row, with_answers) ==
    [j \in 1..Len(df) |->
        PadRow(<< NumberBox(df[j].number), Gap, RoundedBox(PyStr(df[j].word)), Gap,
                  AnswerBox(with_answers, PyStr(df[j].meaning)) >>)]

\* The loop of build_pdf over df.iterrows(); i is the index label, which is
\* the 0-based position in a frame whose index was reset (app.py:441).
RECURSIVE BuildRows(_, _, _, _, _)
BuildRows(df, i, data, row, with_answers) ==
    IF i >= Len(df)
    THEN IF row # <<>> THEN Append(data, PadRow(row)) ELSE data
    ELSE LET r == df[i + 1]
             q_text == PyStr(r.word)
             ans_text == PyStr(r.meaning)
             lane == << NumberBox(r.number), Gap, RoundedBox(q_text), Gap,
                        AnswerBox(with_answers, ans_text) >>
         IN  IF i % 2 = 0
             THEN BuildRows(df, i + 1, data, row \o lane, with_answers)
             ELSE BuildRows(df, i + 1, Append(data, row \o <<Gap>> \o lane), <<>>,
                            with_answers)

\* The exception build_pdf raises on df, or "none"
BuildError(df, with_answers) ==
    IF \E i \in 1..Len(df) : df[i].number.k = "absent" \/ df[i].word.k = "absent"
        THEN "KeyError"
    ELSE IF with_answers /\ \E i \in 1..Len(df) : df[i].meaning.k = "absent"
        THEN "KeyError"
    ELSE IF \E i \in 1..Len(df) : ~ParagraphOk(PyStr(df[i].word))
        THEN "ValueError"
    ELSE IF with_answers /\ \E i \in 1..Len(df) : ~ParagraphOk(PyStr(df[i].meaning))
        THEN "ValueError"
    ELSE "none"

build_pdf(df, with_answers) ==
    IF BuildError(df, with_answers) # "none"
    THEN [err |-> BuildError(df, with_answers), with_answers |-> with_answers,
          grid |-> <<>>]
    ELSE [err |-> "none", with_answers |-> with_answers,
          grid |-> BuildRows(df, 0, <<>>, <<>>, with_answers)]

\* Variant of build_pdf_params: the signature also declares the keywords
\* make passes
build_pdf_params_widened ==
    {"df", "styles", "with_answers", "question_col", "answer_col", "title"}

\* Parameters build_pdf declares, and the keyword arguments make passes
\* besides the two positional ones.
build_pdf_params == {"df", "styles", "with_answers"}
make_call_kwargs == {"with_answers", "question_col", "answer_col", "title"}

\* The call build_pdf(sample, styles, with_answers=..., question_col=...,
\* answer_col=..., title=...) of make: a keyword the callee does not declare
\* raises TypeError before the body runs.
RenderCall(sample, with_answers) ==
    IF ~(make_call_kwargs \subseteq build_pdf_params)
    THEN [err |-> "TypeError", with_answers |-> with_answers, grid |-> <<>>]
    ELSE build_pdf(sample, with_answers)

\* ------------------------------------------------------------------------
\* POST /make (app.py: make).  The handler is written innermost step first;
\* every step receives the locals L and the quota dict u built so far.
\* A form field is drawn where the code first uses its value.
\* ------------------------------------------------------------------------
Ev(name, k) == [ev |-> name, set |-> k]

\* flash(...) + redirect: the handler ends without a download list
Finish(L, outcome, u) ==
    /\ lcl' = L
    /\ resp' = [outcome |-> outcome, args |-> <<>>, body |-> <<>>]
    /\ usage' = u
    /\ pc' = "done"
    /\ nreq' = nreq + 1
    /\ UNCHANGED <<today, table, use_r2, pdfs>>

TitleBase(mode) == IF mode = "en-ja" THEN "EJ" ELSE "JE"

\* lines 413-437: n, mode check, titles, stamp; then the loop starts
MakeCommon(L, u) ==
    LET n == Min(L.num_questions, Len(L.pool))
    IN  \E mode \in ModeTokens :
          IF mode \notin {"en-ja", "ja-en"}
          THEN Finish([L EXCEPT !.n = n, !.mode = mode], "bad_mode", u)
          ELSE \E stamp \in Stamps :
                 /\ lcl' = [L EXCEPT !.n = n, !.mode = mode, !.stamp = stamp,
                                     !.set_idx = 1]
                 /\ resp' = NoResp
                 /\ usage' = u
                 /\ pc' = "loop"
                 /\ nreq' = nreq + 1
                 /\ UNCHANGED <<today, table, use_r2, pdfs>>

\* Variant of RangeFilter: the upper bound is exclusive
RangeFilterExclusive(df, start_num, end_num) ==
    LET InRange(r) == r.number.v >= start_num /\ r.number.v < end_num
    IN  SelectSeq(df, InRange)

\* df[(df["number"] >= start_num) & (df["number"] <= end_num)]
RangeFilter(df, start_num, end_num) ==
    LET InRange(r) == r.number.v >= start_num /\ r.number.v <= end_num
    IN  SelectSeq(df, InRange)

\* Variant of CoerceNumbers: a number that cannot be coerced spoils the whole
\* column (errors="raise" turned into an empty frame)
CoerceNumbersStrict(df) ==
    IF \E i \in 1..Len(df) : ~to_numeric(df[i].number).ok THEN <<>>
    ELSE [i \in 1..Len(df) |->
            [df[i] EXCEPT !.number = IntCell(astype_int(to_numeric(@).h))]]

\* num_series = pd.to_numeric(df["number"], errors="coerce");
\* df = df.loc[num_series.notna()]; df["number"] = num_series.astype(int)
CoerceNumbers(df) ==
    LET IsNum(r) == to_numeric(r.number).ok
        kept == SelectSeq(df, IsNum)
    IN  [i \in 1..Len(kept) |->
            [kept[i] EXCEPT !.number = IntCell(astype_int(to_numeric(@).h))]]

\* Variant of BoundsReversed: off by one
BoundsReversedOffByOne(start_num, end_num) == start_num > end_num + 1

\* if start_num > end_num
BoundsReversed(start_num, end_num) == start_num > end_num

\* lines 378-407: number-range mode
MakeRange(L, u) ==
    IF "number" \notin table.cols
    THEN Finish([L EXCEPT !.selmode = "range"], "no_number_column", u)
    ELSE
      LET L1 == [L EXCEPT !.selmode = "range", !.df = CoerceNumbers(L.df),
                          !.log = Append(@, Ev("filter_numeric", 0))]
      IN  IF L1.df = <<>>
          THEN Finish(L1, "no_valid_numbers", u)
          ELSE \E st \in BoundTokens, en \in BoundTokens :
                 LET L2 == [L1 EXCEPT !.start_tok = st, !.end_tok = en]
                     start_num == ParseInt(st).v
                     end_num == ParseInt(en).v
                     L3 == [L2 EXCEPT !.start_num = start_num, !.end_num = end_num]
                     L4 == [L3 EXCEPT !.pool = RangeFilter(L1.df, start_num, end_num),
                                      !.log = Append(@, Ev("filter_range", 0))]
                 IN  IF ~ParseInt(st).ok \/ ~ParseInt(en).ok
                     THEN Finish(L2, "bad_range_bounds", u)
                     ELSE IF BoundsReversed(start_num, end_num)
                     THEN Finish(L3, "start_gt_end", u)
                     ELSE IF L4.pool = <<>>
                     THEN Finish(L4, "empty_range", u)
                     ELSE MakeCommon(L4, u)

\* Variant of SectionFilter: isin on the raw section values, no astype(str)
SectionFilterRaw(df, sections_selected) ==
    LET Selected(r) == r.section.k = "text" /\ r.section.v \in sections_selected
    IN  SelectSeq(df, Selected)

\* df["__section_str__"] = df["section"].astype(str);
\* df = df[df["__section_str__"].isin(sections_selected)]
SectionFilter(df, sections_selected) ==
    LET dtype == ColumnDtype([i \in 1..Len(df) |-> df[i].section])
        withstr == [i \in 1..Len(df) |->
                       [df[i] EXCEPT !.secstr = astype_str(df[i].section, dtype)]]
        Selected(r) == r.secstr \in sections_selected
    IN  SelectSeq(withstr, Selected)

\* lines 369-373: numeric numbers become integers, the others are kept
DisplayNumbers(df) ==
    [i \in 1..Len(df) |->
        IF to_numeric(df[i].number).ok
        THEN [df[i] EXCEPT !.number = IntCell(astype_int(to_numeric(@).h))]
        ELSE df[i]]

\* lines 356-375: section mode
MakeSection(L, u) ==
    \E sel \in SectionChoices :
      LET L1 == [L EXCEPT !.selmode = "section", !.sections = sel]
          filtered == SectionFilter(L.df, sel)
          L2 == [L1 EXCEPT !.log = Append(@, Ev("filter_section", 0)),
                           !.pool = IF "number" \in table.cols
                                    THEN DisplayNumbers(filtered) ELSE filtered]
      IN  IF sel = {}
          THEN Finish(L1, "no_sections_selected", u)
          ELSE IF filtered = <<>>
          THEN Finish(L2, "empty_section", u)
          ELSE MakeCommon(L2, u)

\* Variant of required: only the word column is demanded
required_word_only == {"word"}

\* required = {"word", "meaning"}
required == {"word", "meaning"}

\* lines 337-351: load the table, check the required columns, pick the mode
MakeLoad(L, u) ==
    LET L1 == [L EXCEPT !.log = Append(@, Ev("load", 0))]
        missing == required \ table.cols
        L2 == [L1 EXCEPT !.df = table.rows]
    IN  IF ~table.readable
        THEN Finish(L1, "excel_error", u)
        ELSE IF missing # {}
        THEN Finish([L1 EXCEPT !.missing = missing], "missing_columns", u)
        ELSE IF "section" \in table.cols
        THEN MakeSection(L2, u)
        ELSE MakeRange(L2, u)

\* list_xlsx(): the keys of the uploaded .xlsx files
files == {UploadedFile}

\* lines 300-335: counts, limits, quota, file name.  The form fields are
\* drawn from the given sets and cap bounds the number of requests served.
make(Filenames, Counts, Sets, cap) ==
    /\ pc = "idle"
    /\ nreq < cap
    /\ \E filename \in Filenames, nq \in Counts :
         LET L0 == [NoLocals EXCEPT !.handler = "make", !.filename = filename,
                                    !.nq_tok = nq]
         IN  IF ~ParseInt(nq).ok
             THEN Finish(L0, "bad_num_questions", usage)
             ELSE IF ParseInt(nq).v <= 0
             THEN Finish(L0, "nonpositive_num_questions", usage)
             ELSE \E ns \in Sets :
               LET p == parse_optional_positive_int(ns, 1, 1,
                                                    ABSOLUTE_MAX_SETS_PER_REQUEST)
                   L1 == [L0 EXCEPT !.num_questions = ParseInt(nq).v, !.ns_tok = ns]
               IN  IF ~p.ok
                   THEN Finish(L1, "bad_num_sets", usage)
                   ELSE \E is_auth \in BOOLEAN, cid \in Clients :
                     LET L2 == [L1 EXCEPT !.num_sets = p.v, !.is_auth = is_auth,
                                          !.cid = cid]
                         q == consume_daily_quota(usage, p.v, is_auth, cid)
                         Lq == [L2 EXCEPT !.key = q.key, !.used = q.used]
                         L3 == [Lq EXCEPT !.log = Append(@, Ev("quota", 0))]
                     IN  IF enforce_sets_limits(p.v, is_auth)
                         THEN Finish(L2, "403", usage)
                         ELSE IF ~q.ok
                         THEN Finish(Lq, "429", usage)
                         ELSE IF filename = "" \/ filename \notin files
                         THEN Finish(L3, "bad_filename", q.u)
                         ELSE MakeLoad(L3, q.u)

\* POST /make
MakePost == make(FilenameTokens, CountTokens, SetsTokens, MaxRequests)

\* Variant of Samples: df.sample(n=n, replace=True)
SamplesWithReplacement(pool, n) ==
    { [i \in 1..n |-> pool[f[i]]] : f \in [1..n -> 1..Len(pool)] }

\* df.sample(n=n).reset_index(drop=True): n distinct rows of the pool in a
\* random order (src keeps the spreadsheet row the record came from)
Samples(pool, n) ==
    { [i \in 1..n |-> pool[f[i]]] :
        f \in { g \in [1..n -> 1..Len(pool)] :
                  \A a, b \in 1..n : a # b => g[a] # g[b] } }

\* q_name / a_name (and the generated/ key when USE_R2)
DocName(role, L, uid) ==
    [prefix |-> IF use_r2 THEN "generated/" ELSE "",
     role |-> role, label |-> TitleBase(L.mode), stamp |-> L.stamp,
     suffix |-> IF L.num_sets > 1 THEN L.set_idx ELSE 0,
     uid |-> uid]

\* storage.upload(bytes, key) / open(path, "wb").write(bytes)
Store(p, name, doc) ==
    { d \in p : d.name # name } \cup {[name |-> name, doc |-> doc]}

\* lines 439-499: one iteration of "for set_idx in range(1, num_sets + 1)",
\* the success response after the last one, and the except clause
GenerateSet ==
    /\ pc = "loop"
    /\ \E sample \in Samples(lcl.pool, lcl.n), uid \in Uids :
         LET q_pdf == RenderCall(sample, FALSE)
             a_pdf == RenderCall(sample, TRUE)
             k == lcl.set_idx
             q_name == DocName("questions", lcl, uid)
             a_name == DocName("answers", lcl, uid)
             L1 == [lcl EXCEPT !.sample = sample, !.log = Append(@, Ev("sample", k))]
             Lq == [L1 EXCEPT !.log = Append(@, Ev("render_q", k))]
             La == [Lq EXCEPT !.log = Append(@, Ev("render_a", k))]
             Ls == [La EXCEPT !.log = @ \o <<Ev("store_q", k), Ev("store_a", k)>>,
                              !.download_args =
                                  @ \o << <<"q", q_name>>, <<"a", a_name>> >>]
         IN  IF q_pdf.err # "none"
             THEN /\ lcl' = [L1 EXCEPT !.log = Append(@, Ev("render_q_failed", k))]
                  /\ resp' = [outcome |-> "pdf_error", args |-> <<>>, body |-> <<>>]
                  /\ pc' = "done"
                  /\ UNCHANGED pdfs
             ELSE IF a_pdf.err # "none"
             THEN /\ lcl' = [Lq EXCEPT !.log = Append(@, Ev("render_a_failed", k))]
                  /\ resp' = [outcome |-> "pdf_error", args |-> <<>>, body |-> <<>>]
                  /\ pc' = "done"
                  /\ UNCHANGED pdfs
             ELSE /\ pdfs' = Store(Store(pdfs, q_name, q_pdf), a_name, a_pdf)
                  /\ IF k = lcl.num_sets
                     THEN /\ lcl' = Ls
                          /\ resp' = [outcome |-> "ok", args |-> Ls.download_args,
                                      body |-> <<>>]
                          /\ pc' = "done"
                     ELSE /\ lcl' = [Ls EXCEPT !.set_idx = k + 1]
                          /\ resp' = resp
                          /\ pc' = "loop"
    /\ UNCHANGED <<today, table, use_r2, usage, nreq>>

\* The response is sent and the handler's locals are gone
Return ==
    /\ pc = "done"
    /\ pc' = "idle"
    /\ lcl' = NoLocals
    /\ resp' = NoResp
    /\ UNCHANGED <<today, table, use_r2, usage, pdfs, nreq>>

Init ==
    /\ table \in Tables
    /\ use_r2 \in BOOLEAN
    /\ today = 1
    /\ usage = << >>
    /\ pdfs = {}
    /\ pc = "idle"
    /\ lcl = NoLocals
    /\ resp = NoResp
    /\ nreq = 0

Next == MakePost \/ GenerateSet \/ Return

Spec == Init /\ [][Next]_vars

\* ------------------------------------------------------------------------
\* /make over several days: requests with a valid question count on the
\* uploaded file, by public and authenticated callers, up to the daily limits
\* ------------------------------------------------------------------------
QuotaSetsTokens == {"", "2", "100"}
QuotaTables ==
    { CorruptTable,
      MkTable({"word", "meaning", "number"},
              << [number |-> IntCell(1), section |-> TextCell("A"),
                  word |-> TextCell("apple"), meaning |-> TextCell("ringo")] >>) }

MakePostQuota == make({UploadedFile}, {"1"}, QuotaSetsTokens, MaxQuotaRequests)

\* The UTC date changes
Midnight ==
    /\ today < MaxDays
    /\ today' = today + 1
    /\ UNCHANGED <<table, use_r2, usage, pdfs, pc, lcl, resp, nreq>>

InitQuota ==
    /\ table \in QuotaTables
    /\ use_r2 = FALSE
    /\ today = 1
    /\ usage = << >>
    /\ pdfs = {}
    /\ pc = "idle"
    /\ lcl = NoLocals
    /\ resp = NoResp
    /\ nreq = 0

NextQuota == MakePostQuota \/ GenerateSet \/ Return \/ Midnight

SpecQuota == InitQuota /\ [][NextQuota]_vars

\* ------------------------------------------------------------------------
\* Document combiner (app.py: _read_pdf_bytes_from_identifier,
\* _merge_pdf_bytes_in_order, download_zip, download_merge_questions)
\* ------------------------------------------------------------------------
\* An identifier of the query string is [prefix, base]; a stored blob is
\* [kind, pages].
Ident(prefix, base) == [prefix |-> prefix, base |-> base]
PdfBlob(base, p) ==
    [kind |-> "pdf", pages |-> [j \in 1..p |-> [doc |-> base, no |-> j]]]
XlsxBlob == [kind |-> "xlsx", pages |-> <<>>]

IdTokens ==
    { Ident("generated/", "d1.pdf"), Ident("generated/", "d2.pdf"),
      Ident("", "d3.pdf"), Ident("uploads/", "a.xlsx") }

\* utils/files.py safe_filename: os.path.basename drops the directories
safe_filename(id) == Ident("", id.base)

\* The documents found in the bucket (USE_R2) or in PDF_LOCAL_DIR when the
\* process starts; the uploaded spreadsheet is in the bucket but not in the
\* PDF directory.
StoredName(r2, base) == IF r2 THEN Ident("generated/", base) ELSE Ident("", base)
Storages(r2) ==
    { { [name |-> StoredName(r2, "d1.pdf"), doc |-> PdfBlob("d1.pdf", p1)],
        [name |-> StoredName(r2, "d2.pdf"), doc |-> PdfBlob("d2.pdf", p2)],
        [name |-> StoredName(r2, "d3.pdf"), doc |-> PdfBlob("d3.pdf", p3)] }
      \cup (IF r2 THEN {[name |-> Ident("uploads/", "a.xlsx"), doc |-> XlsxBlob]}
            ELSE {}) :
      p1 \in 1..MaxPages, p2 \in 1..MaxPages, p3 \in 1..MaxPages }

Lookup(p, name) ==
    IF \E d \in p : d.name = name
    THEN [ok |-> TRUE, doc |-> (CHOOSE d \in p : d.name = name).doc]
    ELSE [ok |-> FALSE, doc |-> XlsxBlob]

\* _read_pdf_bytes_from_identifier: ok = FALSE when it raises
_read_pdf_bytes_from_identifier(identifier) ==
    IF use_r2
    THEN IF identifier.prefix \notin {"generated/", "uploads/"}
         THEN [ok |-> FALSE, doc |-> XlsxBlob]
         ELSE Lookup(pdfs, identifier)
    ELSE Lookup(pdfs, safe_filename(identifier))

\* Variant of AddPages: every page is inserted in front of the output
RECURSIVE AddPagesFront(_, _, _)
AddPagesFront(writer, pages, j) ==
    IF j > Len(pages) THEN writer
    ELSE AddPagesFront(<<pages[j]>> \o writer, pages, j + 1)

\* The loop "for page in reader.pages: writer.add_page(page)"
RECURSIVE AddPages(_, _, _)
AddPages(writer, pages, j) ==
    IF j > Len(pages) THEN writer
    ELSE AddPages(Append(writer, pages[j]), pages, j + 1)

\* _merge_pdf_bytes_in_order: PdfReader raises on bytes that are not a PDF
RECURSIVE MergeLoop(_, _, _)
MergeLoop(writer, pdf_bytes_list, i) ==
    IF i > Len(pdf_bytes_list) THEN [ok |-> TRUE, pages |-> writer]
    ELSE IF pdf_bytes_list[i].kind # "pdf" THEN [ok |-> FALSE, pages |-> <<>>]
    ELSE MergeLoop(AddPages(writer, pdf_bytes_list[i].pages, 1), pdf_bytes_list, i + 1)

_merge_pdf_bytes_in_order(pdf_bytes_list) == MergeLoop(<<>>, pdf_bytes_list, 1)

\* GET /download_merge_questions
download_merge_questions ==
    /\ pc = "idle"
    /\ nreq < MaxRequests
    /\ \E qs \in SeqsUpTo(IdTokens, MaxDocs) :
         LET L == [NoLocals EXCEPT !.handler = "merge_questions", !.download_args = qs]
             reads == [i \in 1..Len(qs) |-> _read_pdf_bytes_from_identifier(qs[i])]
             blobs == [i \in 1..Len(qs) |-> reads[i].doc]
             merged == _merge_pdf_bytes_in_order(blobs)
         IN  /\ lcl' = L
             /\ resp' =
                  IF qs = <<>>
                  THEN [outcome |-> "merge_nothing", args |-> <<>>, body |-> <<>>]
                  ELSE IF (\E i \in 1..Len(qs) : ~reads[i].ok) \/ ~merged.ok
                  THEN [outcome |-> "merge_failed", args |-> qs, body |-> <<>>]
                  ELSE [outcome |-> "merged", args |-> <<>>, body |-> merged.pages]
    /\ pc' = "done"
    /\ nreq' = nreq + 1
    /\ UNCHANGED <<today, table, use_r2, usage, pdfs>>

\* f"copy_{i+1:02d}": the decimal digits of n, zero-padded to width 2
RECURSIVE Digits(_)
Digits(n) == IF n < 10 THEN <<n>> ELSE Append(Digits(n \div 10), n % 10)
Pad2(n) == IF Len(Digits(n)) < 2 THEN <<0>> \o Digits(n) ELSE Digits(n)
\* Variant of ZipEntry: the folder carries the 0-based index of the pair
ZipEntryZeroBased(i, file, blob) == [folder |-> Pad2(i), file |-> file, bytes |-> blob]

\* zf.writestr(f"copy_{i+1:02d}/<file>", bytes): one entry of the archive
ZipEntry(i, file, blob) == [folder |-> Pad2(i + 1), file |-> file, bytes |-> blob]

\* The loop "for i in range(pair_count)" of download_zip; i is 0-based
RECURSIVE ZipLoop(_, _, _, _, _)
ZipLoop(zf, qs, ans, i, pair_count) ==
    IF i >= pair_count THEN [ok |-> TRUE, zf |-> zf]
    ELSE LET q == _read_pdf_bytes_from_identifier(qs[i + 1])
             a == _read_pdf_bytes_from_identifier(ans[i + 1])
         IN  IF ~q.ok \/ ~a.ok THEN [ok |-> FALSE, zf |-> <<>>]
             ELSE ZipLoop(zf \o << ZipEntry(i, "questions.pdf", q.doc),
                                   ZipEntry(i, "answers.pdf", a.doc) >>,
                          qs, ans, i + 1, pair_count)

\* Variant of ZipNothing: lists of different lengths are refused too
ZipNothingOrMismatch(qs, ans) == qs = <<>> \/ ans = <<>> \/ Len(qs) # Len(ans)

\* if not qs or not ans
ZipNothing(qs, ans) == qs = <<>> \/ ans = <<>>

\* GET /download_zip
download_zip ==
    /\ pc = "idle"
    /\ nreq < MaxRequests
    /\ \E qs \in SeqsUpTo(IdTokens, MaxPairs), ans \in SeqsUpTo(IdTokens, MaxPairs) :
         LET L == [NoLocals EXCEPT !.handler = "zip",
                                   !.download_args = << qs, ans >>]
             pair_count == Min(Len(qs), Len(ans))
             z == ZipLoop(<<>>, qs, ans, 0, pair_count)
         IN  /\ lcl' = L
             /\ resp' =
                  IF ZipNothing(qs, ans)
                  THEN [outcome |-> "zip_nothing", args |-> <<>>, body |-> <<>>]
                  ELSE IF pair_count <= 0
                  THEN [outcome |-> "zip_short", args |-> <<>>, body |-> <<>>]
                  ELSE IF ~z.ok
                  THEN [outcome |-> "zip_failed", args |-> qs \o ans, body |-> <<>>]
                  ELSE [outcome |-> "zip", args |-> <<>>, body |-> z.zf]
    /\ pc' = "done"
    /\ nreq' = nreq + 1
    /\ UNCHANGED <<today, table, use_r2, usage, pdfs>>

InitCombine ==
    /\ table = CorruptTable
    /\ use_r2 \in BOOLEAN
    /\ today = 1
    /\ usage = << >>
    /\ pdfs \in Storages(use_r2)
    /\ pc = "idle"
    /\ lcl = NoLocals
    /\ resp = NoResp
    /\ nreq = 0

NextCombine == download_zip \/ download_merge_questions \/ Return

SpecCombine == InitCombine /\ [][NextCombine]_vars

\* ------------------------------------------------------------------------
\* Layout engine on its own: build_pdf(df, styles, with_answers=...) called
\* with the positional frame and the keyword it declares.
\* ------------------------------------------------------------------------
\* The frames the selection stage of make hands on: the table has the
\* required columns, numeric numbers are integers, the index is 0..n-1.
LayoutFrames ==
    { DisplayNumbers(MkTable(cols, kinds).rows) :
        cols \in { c \in ColumnSets : required \subseteq c },
        kinds \in (SeqsUpTo(RowKinds, MaxCells) \ {<<>>}) }

BuildPdf ==
    /\ pc = "idle"
    /\ nreq < MaxRequests
    /\ \E df \in LayoutFrames, with_answers \in BOOLEAN :
         LET doc == build_pdf(df, with_answers)
         IN  /\ lcl' = [NoLocals EXCEPT !.handler = "build_pdf", !.sample = df]
             /\ resp' = [outcome |-> IF doc.err = "none" THEN "built" ELSE doc.err,
                         args |-> <<with_answers>>, body |-> doc.grid]
    /\ pc' = "done"
    /\ nreq' = nreq + 1
    /\ UNCHANGED <<today, table, use_r2, usage, pdfs>>

InitLayout ==
    /\ table = CorruptTable
    /\ use_r2 = FALSE
    /\ today = 1
    /\ usage = << >>
    /\ pdfs = {}
    /\ pc = "idle"
    /\ lcl = NoLocals
    /\ resp = NoResp
    /\ nreq = 0

NextLayout == BuildPdf \/ Return

SpecLayout == InitLayout /\ [][NextLayout]_vars

\* ------------------------------------------------------------------------
\* Properties
\* ------------------------------------------------------------------------
HasEvent(name) == \E i \in 1..Len(lcl.log) : lcl.log[i].ev = name
InMake == lcl.handler = "make"

\* The spreadsheet rows (by position) that match the criterion in force:
\* the number is numeric and its integer value lies in [start, end], or the
\* section written as a string is one of the selected sections.
IntegerValue(c) == astype_int(to_numeric(c).h)
MatchesRange(r) ==
    /\ to_numeric(r.number).ok
    /\ lcl.start_num <= IntegerValue(r.number)
    /\ IntegerValue(r.number) <= lcl.end_num
SectionString(r) ==
    astype_str(r.section,
               ColumnDtype([i \in 1..Len(table.rows) |-> table.rows[i].section]))
MatchesSection(r) == SectionString(r) \in lcl.sections
Matching ==
    { i \in 1..Len(table.rows) :
        IF lcl.selmode = "range" THEN MatchesRange(table.rows[i])
        ELSE MatchesSection(table.rows[i]) }
PoolSrc == { lcl.pool[i].src : i \in 1..Len(lcl.pool) }
CriterionApplied == InMake /\ (HasEvent("filter_range") \/ HasEvent("filter_section"))

\* C1: every set sampled by /make has exactly min(requested count, size of
\* the filtered pool) rows, each of them a row of the filtered pool, and no
\* pool row occurs twice in the set.
C1_BoundedSample ==
    (InMake /\ HasEvent("sample")) =>
        /\ lcl.num_questions >= 1
        /\ lcl.num_questions <= Len(lcl.pool) => Len(lcl.sample) = lcl.num_questions
        /\ lcl.num_questions > Len(lcl.pool) => Len(lcl.sample) = Len(lcl.pool)
        /\ \A i \in 1..Len(lcl.sample) :
             \E j \in 1..Len(lcl.pool) : lcl.sample[i] = lcl.pool[j]
        /\ \A i, j \in 1..Len(lcl.sample) :
             i # j => lcl.sample[i].src # lcl.sample[j].src

\* C1 witness: more questions requested than the pool holds, and the set
\* holds the two rows of the pool
C1_Witness ==
    /\ InMake /\ HasEvent("sample")
    /\ lcl.num_questions = 3
    /\ Len(lcl.pool) = 2
    /\ Len(lcl.sample) = 2

\* C2: the filtered pool is exactly the set of rows matching the criterion
\* (range mode: start <= number <= end with both bounds inclusive, the number
\* taken as the integer the column is coerced to; section mode: the section
\* written as a string is one of the selected sections), and every sampled
\* row is one of them.
C2_PoolIsMatchingRows ==
    CriterionApplied =>
        /\ PoolSrc = Matching
        /\ \A i \in 1..Len(lcl.pool) :
             IF lcl.selmode = "range"
             THEN /\ lcl.start_num <= lcl.pool[i].number.v
                  /\ lcl.pool[i].number.v <= lcl.end_num
             ELSE lcl.pool[i].secstr \in lcl.sections
        /\ \A i \in 1..Len(lcl.sample) : lcl.sample[i].src \in Matching

\* C2 witness: range mode, a sampled row sits on the upper bound and another
\* row of the table is outside the range
C2_Witness ==
    /\ CriterionApplied /\ HasEvent("sample")
    /\ lcl.selmode = "range"
    /\ \E i \in 1..Len(lcl.sample) : lcl.sample[i].number.v = lcl.end_num
    /\ Len(lcl.pool) < Len(lcl.df)

\* The layout engine can render these rows (the body of build_pdf raises
\* nothing on them, with or without answers)
Renderable(rows) ==
    BuildError(rows, FALSE) = "none" /\ BuildError(rows, TRUE) = "none"

\* The set index of the last set sampled
LastSet ==
    CHOOSE k \in 0..100 :
        /\ k = 0 \/ \E i \in 1..Len(lcl.log) : lcl.log[i] = Ev("sample", k)
        /\ \A i \in 1..Len(lcl.log) : lcl.log[i].ev = "sample" => lcl.log[i].set <= k

\* The texts of the boxes of one kind in a document, in reading order
GridCells(grid) ==
    [c \in 1..(NumColWidths * Len(grid)) |->
        grid[((c - 1) \div NumColWidths) + 1][((c - 1) % NumColWidths) + 1]]
BoxTexts(doc, kind) ==
    LET IsKind(cell) == cell.box = kind
        cells == SelectSeq(GridCells(doc.grid), IsKind)
    IN  [i \in 1..Len(cells) |-> cells[i].text]

\* C3: within one set the question and the answer document are built from
\* the same ordered row sequence: once a renderable set has been sampled and
\* its step is over, both documents exist and show, position by position,
\* the numbers of the sampled rows and the same prompt texts.
C3_PairingIntegrity ==
    (InMake /\ HasEvent("sample") /\ Renderable(lcl.sample)) =>
        \E q \in pdfs, a \in pdfs :
            /\ q.name.role = "questions"
            /\ a.name = [q.name EXCEPT !.role = "answers"]
            /\ q.name.suffix = (IF lcl.num_sets > 1 THEN LastSet ELSE 0)
            /\ BoxTexts(q.doc, "number") =
                   [i \in 1..Len(lcl.sample) |-> DispNo(lcl.sample[i].number)]
            /\ BoxTexts(a.doc, "number") = BoxTexts(q.doc, "number")
            /\ BoxTexts(a.doc, "prompt") = BoxTexts(q.doc, "prompt")
            /\ Len(BoxTexts(q.doc, "prompt")) = Len(lcl.sample)

EventIndex(e) ==
    IF \E i \in 1..Len(lcl.log) : lcl.log[i] = e
    THEN CHOOSE i \in 1..Len(lcl.log) : lcl.log[i] = e
    ELSE 0

\* C5: a generate request with num_sets = N whose rows can all be rendered
\* ends with exactly N (question, answer) pairs, listed q,a,q,a,... in set
\* order, and set k's two documents are rendered and stored before set k+1
\* is sampled.
C5_BatchOfNPairs ==
    (InMake /\ pc = "done" /\ lcl.set_idx >= 1 /\ Renderable(lcl.pool)) =>
        /\ resp.outcome = "ok"
        /\ Len(resp.args) = 2 * lcl.num_sets
        /\ \A k \in 1..lcl.num_sets :
             /\ resp.args[2 * k - 1][1] = "q"
             /\ resp.args[2 * k][1] = "a"
             /\ resp.args[2 * k - 1][2].role = "questions"
             /\ resp.args[2 * k][2] = [resp.args[2 * k - 1][2] EXCEPT !.role = "answers"]
             /\ resp.args[2 * k][2].suffix = (IF lcl.num_sets > 1 THEN k ELSE 0)
             /\ \E d \in pdfs : d.name = resp.args[2 * k - 1][2]
             /\ \E d \in pdfs : d.name = resp.args[2 * k][2]
             /\ EventIndex(Ev("render_q", k)) > 0
             /\ EventIndex(Ev("render_q", k)) < EventIndex(Ev("render_a", k))
             /\ EventIndex(Ev("render_a", k)) < EventIndex(Ev("store_a", k))
             /\ k < lcl.num_sets =>
                  EventIndex(Ev("store_a", k)) < EventIndex(Ev("sample", k + 1))

\* Outcomes of /make
PreLoadErrors ==
    {"bad_num_questions", "nonpositive_num_questions", "bad_num_sets",
     "403", "429", "bad_filename"}
EmptySelectionOutcomes == {"empty_range", "empty_section", "no_valid_numbers"}
MakeOver == InMake /\ pc \in {"done", "loop"}

\* Nothing was sampled, rendered or stored by the request
NoWork ==
    /\ ~HasEvent("sample")
    /\ ~HasEvent("render_q") /\ ~HasEvent("render_q_failed")
    /\ ~HasEvent("render_a") /\ ~HasEvent("render_a_failed")
    /\ ~HasEvent("store_q") /\ ~HasEvent("store_a")
    /\ lcl.sample = <<>>
    /\ pdfs = {}
    /\ resp.args = <<>>
NoFiltering ==
    /\ ~HasEvent("filter_numeric")
    /\ ~HasEvent("filter_range")
    /\ ~HasEvent("filter_section")
    /\ lcl.pool = <<>>

\* C6: a table without the meaning (or word) column never gets past the
\* schema check: the request ends with the schema error listing the missing
\* columns as soon as the table is loaded, whatever the row count, the mode
\* and the selection parameters, and before any filtering, sampling,
\* rendering or storage.
C6_SchemaErrorFirst ==
    (MakeOver /\ table.readable /\ {"word", "meaning"} \ table.cols # {}) =>
        /\ resp.outcome \in PreLoadErrors \cup {"missing_columns"}
        /\ HasEvent("load") =>
             /\ resp.outcome = "missing_columns"
             /\ lcl.missing = {"word", "meaning"} \ table.cols
        /\ NoFiltering
        /\ NoWork

\* C6 witness: a two-row table without the meaning column is refused
C6_Witness ==
    /\ MakeOver /\ resp.outcome = "missing_columns"
    /\ lcl.missing = {"meaning"}
    /\ Len(table.rows) = 2

\* C7: malformed selection parameters (question count that is not a positive
\* integer, range bounds that are not integers, start > end in range mode,
\* no section selected in section mode) end the request with the matching
\* validation error, and nothing is sampled, rendered or stored.
C7_MalformedRejected ==
    MakeOver =>
        /\ (lcl.nq_tok # "unread" /\ ~ParseInt(lcl.nq_tok).ok) =>
             (resp.outcome = "bad_num_questions" /\ NoWork /\ NoFiltering)
        /\ (lcl.nq_tok # "unread" /\ ParseInt(lcl.nq_tok).ok
                /\ ParseInt(lcl.nq_tok).v <= 0) =>
             (resp.outcome = "nonpositive_num_questions" /\ NoWork /\ NoFiltering)
        /\ (lcl.selmode = "range" /\ lcl.start_tok # "unread"
                /\ (~ParseInt(lcl.start_tok).ok \/ ~ParseInt(lcl.end_tok).ok)) =>
             (resp.outcome = "bad_range_bounds" /\ NoWork)
        /\ (lcl.selmode = "range" /\ lcl.start_tok # "unread"
                /\ ParseInt(lcl.start_tok).ok /\ ParseInt(lcl.end_tok).ok
                /\ ParseInt(lcl.start_tok).v > ParseInt(lcl.end_tok).v) =>
             (resp.outcome = "start_gt_end" /\ NoWork /\ ~HasEvent("filter_range"))
        /\ (lcl.selmode = "section" /\ lcl.sections = {}) =>
             (resp.outcome = "no_sections_selected" /\ NoWork /\ NoFiltering)

\* C7 witness: a range request with start > end is refused
C7_Witness ==
    /\ MakeOver /\ resp.outcome = "start_gt_end"
    /\ lcl.start_num = 3 /\ lcl.end_num = 1
    /\ Len(lcl.df) = 2

\* C8: when the criterion matches no row the request ends with the
\* empty-selection error and nothing is sampled, rendered or stored; when it
\* matches some row the empty-selection error is not raised.
C8_EmptySelection ==
    /\ (MakeOver /\ CriterionApplied) =>
         /\ Matching = {} =>
              (resp.outcome \in {"empty_range", "empty_section"} /\ NoWork)
         /\ Matching # {} =>
              (resp.outcome \notin EmptySelectionOutcomes /\ lcl.pool # <<>>)
    /\ (MakeOver /\ HasEvent("filter_numeric")
          /\ \A i \in 1..Len(table.rows) : ~to_numeric(table.rows[i].number).ok) =>
         (resp.outcome = "no_valid_numbers" /\ NoWork)
    /\ (MakeOver /\ resp.outcome \in EmptySelectionOutcomes) => lcl.pool = <<>>

\* C8 witness: the table has numbered rows but none lies in the range
C8_Witness ==
    /\ MakeOver /\ resp.outcome = "empty_range"
    /\ Len(lcl.df) = 2
    /\ Matching = {}

\* The identifier list given to /download_merge_questions, the documents
\* they name and their page counts
MergeIds == lcl.download_args
DocOf(id) == _read_pdf_bytes_from_identifier(id).doc
IsPdf(id) ==
    _read_pdf_bytes_from_identifier(id).ok /\ DocOf(id).kind = "pdf"
PageCounts == [i \in 1..Len(MergeIds) |-> Len(DocOf(MergeIds[i]).pages)]
RECURSIVE SumTo(_, _)
SumTo(f, i) == IF i = 0 THEN 0 ELSE SumTo(f, i - 1) + f[i]

\* C9: merging the documents d1..dk (every one a stored PDF) gives a
\* document whose page count is the sum of the inputs' page counts and whose
\* pages are the inputs' pages, concatenated in the order of the list given
\* by the caller.
C9_MergeConcatenates ==
    (lcl.handler = "merge_questions" /\ MergeIds # <<>>
        /\ \A i \in 1..Len(MergeIds) : IsPdf(MergeIds[i])) =>
        /\ resp.outcome = "merged"
        /\ Len(resp.body) = SumTo(PageCounts, Len(MergeIds))
        /\ \A i \in 1..Len(MergeIds) :
             \A j \in 1..PageCounts[i] :
                resp.body[SumTo(PageCounts, i - 1) + j] = DocOf(MergeIds[i]).pages[j]

\* C9 witness: three documents of 2, 1 and 3 pages merged into 6 pages
C9_Witness ==
    /\ lcl.handler = "merge_questions" /\ resp.outcome = "merged"
    /\ Len(MergeIds) = 3
    /\ PageCounts = <<2, 1, 3>>
    /\ Len(resp.body) = 6

\* The two identifier lists given to /download_zip
IsZip == lcl.handler = "zip"
ZipQs == lcl.download_args[1]
ZipAns == lcl.download_args[2]
ZipMin == Min(Len(ZipQs), Len(ZipAns))
PairsReadable ==
    \A i \in 1..ZipMin :
        /\ _read_pdf_bytes_from_identifier(ZipQs[i]).ok
        /\ _read_pdf_bytes_from_identifier(ZipAns[i]).ok
Folders == { resp.body[i].folder : i \in 1..Len(resp.body) }

\* C10 as stated: lists of different lengths (one of them possibly empty)
\* whose first min(|questions|, |answers|) pairs can be read always give an
\* archive with exactly that many folders.
C10_Original ==
    (IsZip /\ Len(ZipQs) # Len(ZipAns) /\ PairsReadable) =>
        /\ resp.outcome = "zip"
        /\ Cardinality(Folders) = ZipMin

\* C10 amended: two non-empty lists of different lengths whose first
\* min(|questions|, |answers|) pairs can be read give an archive with exactly
\* that many folders; when either list is empty the request is refused and no
\* archive is produced.
C10_TruncatesNonEmpty ==
    /\ (IsZip /\ ZipQs # <<>> /\ ZipAns # <<>> /\ Len(ZipQs) # Len(ZipAns)
          /\ PairsReadable) =>
         /\ resp.outcome = "zip"
         /\ Cardinality(Folders) = ZipMin
         /\ Len(resp.body) = 2 * ZipMin
    /\ (IsZip /\ (ZipQs = <<>> \/ ZipAns = <<>>)) =>
         /\ resp.outcome = "zip_nothing"
         /\ resp.body = <<>>

\* C10 witness: two question identifiers and one answer identifier give an
\* archive with one folder
C10_Witness ==
    /\ IsZip /\ resp.outcome = "zip"
    /\ Len(ZipQs) = 2 /\ Len(ZipAns) = 1
    /\ Cardinality(Folders) = 1

\* C11: in the archive pair i (1-based, in the order of the two lists given
\* by the caller) is the folder copy_<i on two digits> with exactly two
\* entries, questions.pdf holding the i-th question document followed by
\* answers.pdf holding the i-th answer document; the entries are written in
\* pair order, so the sequence of entry names depends on the number of pairs
\* only.
C11_ArchiveLayout ==
    (IsZip /\ resp.outcome = "zip") =>
        /\ Len(resp.body) = 2 * ZipMin
        /\ \A i \in 1..ZipMin :
             /\ resp.body[2 * i - 1] =
                    [folder |-> <<i \div 10, i % 10>>, file |-> "questions.pdf",
                     bytes |-> DocOf(ZipQs[i])]
             /\ resp.body[2 * i] =
                    [folder |-> <<i \div 10, i % 10>>, file |-> "answers.pdf",
                     bytes |-> DocOf(ZipAns[i])]

\* C11 witness: an archive of two pairs whose question documents differ;
\* its folders are copy_01 and copy_02
C11_Witness ==
    /\ IsZip /\ resp.outcome = "zip"
    /\ ZipMin = 2
    /\ ZipQs[1] # ZipQs[2]
    /\ resp.body[1].folder = <<0, 1>> /\ resp.body[3].folder = <<0, 2>>
    /\ resp.body[3].bytes = DocOf(ZipQs[2])

\* The document built by the layout engine and the frame it was built from
IsBuilt == lcl.handler = "build_pdf" /\ resp.outcome = "built"
WithAnswers == resp.args[1]
\* First column of the lane of record i (0-based): 1 for the left lane, 7 for
\* the right lane
LaneStart(i) == IF i % 2 = 0 THEN 1 ELSE 7

\* C12: record i (0-based) of the frame is drawn in grid row i \div 2, in the
\* left lane when i is even and in the right lane when i is odd, so records
\* 2j and 2j+1 share grid row j; the grid has ceil(n/2) rows; when n is odd
\* the right lane of the last row is blank.
C12_LanesByParity ==
    IsBuilt =>
        LET n == Len(lcl.sample)
            grid == resp.body
        IN  /\ Len(grid) = (n + 1) \div 2
            /\ \A j \in 1..Len(grid) : Len(grid[j]) = NumColWidths
            /\ \A i \in 0..(n - 1) :
                 LET row == grid[(i \div 2) + 1]
                     c == LaneStart(i)
                 IN  /\ row[c] = [box |-> "number", shown |-> TRUE,
                                  text |-> DispNo(lcl.sample[i + 1].number)]
                     /\ row[c + 2] = [box |-> "prompt", shown |-> TRUE,
                                      text |-> PyStr(lcl.sample[i + 1].word)]
                     /\ row[c + 4].box = "answer"
            /\ \A j \in 1..Len(grid) : \A c \in {2, 4, 6, 8, 10} : grid[j][c] = Gap
            /\ n % 2 = 1 => \A c \in 6..NumColWidths : grid[Len(grid)][c] = Gap

\* C12 witness: three records give two grid rows, the third record alone in
\* the left lane of the second row
C12_Witness ==
    /\ IsBuilt
    /\ Len(lcl.sample) = 3
    /\ Len(resp.body) = 2
    /\ resp.body[1][7].box = "number"
    /\ resp.body[2][1].box = "number"
    /\ resp.body[2][7] = Gap

\* The grid with every answer box emptied
Blank(grid) ==
    [j \in 1..Len(grid) |->
        [c \in 1..Len(grid[j]) |->
            IF grid[j][c].box = "answer"
            THEN [box |-> "answer", text |-> "", shown |-> FALSE]
            ELSE grid[j][c]]]

\* C14: the answer box of every cell shows the answer text when with_answers
\* is true and is empty when it is false; the document built from the same
\* frame with the other value of with_answers has the same grid but for the
\* text of the answer boxes.
C14_AnswersOnlyWhenAsked ==
    IsBuilt =>
        /\ \A i \in 0..(Len(lcl.sample) - 1) :
             LET box == resp.body[(i \div 2) + 1][LaneStart(i) + 4]
             IN  /\ box.box = "answer"
                 /\ box.shown <=> WithAnswers
                 /\ WithAnswers => box.text = PyStr(lcl.sample[i + 1].meaning)
                 /\ ~WithAnswers => box.text = ""
        /\ build_pdf(lcl.sample, ~WithAnswers).err = "none" =>
             /\ Blank(build_pdf(lcl.sample, ~WithAnswers).grid) = Blank(resp.body)
             /\ WithAnswers => build_pdf(lcl.sample, FALSE).grid = Blank(resp.body)

\* C14 witness: a question document of two records, whose answer boxes are
\* empty while the answer document of the same frame shows the answers
C14_Witness ==
    /\ IsBuilt /\ ~WithAnswers
    /\ Len(lcl.sample) = 2
    /\ resp.body[1][5].text = "" /\ resp.body[1][11].text = ""
    /\ build_pdf(lcl.sample, TRUE).err = "none"
    /\ build_pdf(lcl.sample, TRUE).grid[1][5].text = "ringo"

\* The fields the mode of the request names (app.py:416-421)
QuestionField(r) == IF lcl.mode = "en-ja" THEN r.word ELSE r.meaning
AnswerField(r) == IF lcl.mode = "en-ja" THEN r.meaning ELSE r.word

\* C13: once a renderable set has been sampled and its step is over, its two
\* documents exist, the prompt box of every cell shows the question field of
\* the mode (word in en-ja, meaning in ja-en) and the answer box of the answer
\* document shows the answer field of the mode.
C13_PromptIsQuestionField ==
    (InMake /\ HasEvent("sample") /\ Renderable(lcl.sample)) =>
        \E q \in pdfs, a \in pdfs :
            /\ q.name.role = "questions"
            /\ a.name = [q.name EXCEPT !.role = "answers"]
            /\ q.name.suffix = (IF lcl.num_sets > 1 THEN LastSet ELSE 0)
            /\ BoxTexts(q.doc, "prompt") =
                   [i \in 1..Len(lcl.sample) |-> PyStr(QuestionField(lcl.sample[i]))]
            /\ BoxTexts(a.doc, "prompt") =
                   [i \in 1..Len(lcl.sample) |-> PyStr(QuestionField(lcl.sample[i]))]
            /\ BoxTexts(a.doc, "answer") =
                   [i \in 1..Len(lcl.sample) |-> PyStr(AnswerField(lcl.sample[i]))]

\* The identifiers the request hands to the download page
BatchIds == [i \in 1..Len(resp.args) |-> resp.args[i][2]]

\* C15: a generate request with num_sets = N whose rows can all be rendered
\* hands out 2N identifiers; they carry a set suffix exactly when N > 1; the
\* two identifiers of a set differ in the role only; and the 2N identifiers
\* are pairwise distinct.
C15_DistinctIdentifiers ==
    (InMake /\ pc = "done" /\ lcl.set_idx >= 1 /\ Renderable(lcl.pool)) =>
        /\ Len(BatchIds) = 2 * lcl.num_sets
        /\ \A k \in 1..lcl.num_sets :
             /\ BatchIds[2 * k - 1].role = "questions"
             /\ BatchIds[2 * k] = [BatchIds[2 * k - 1] EXCEPT !.role = "answers"]
             /\ (BatchIds[2 * k].suffix # 0) <=> (lcl.num_sets > 1)
             /\ lcl.num_sets > 1 => BatchIds[2 * k].suffix = k
        /\ \A i, j \in 1..Len(BatchIds) : i # j => BatchIds[i] # BatchIds[j]

\* Every word and meaning of these rows is accepted as paragraph text
PlainText(rows) ==
    \A i \in 1..Len(rows) :
        /\ ParagraphOk(PyStr(rows[i].word))
        /\ ParagraphOk(PyStr(rows[i].meaning))

\* C16: a request in section mode on a table that has the word, meaning and
\* section columns but no number column, with a selection that matches some
\* row, ends with its question and answer documents produced.
C16_SectionModeWithoutNumber ==
    (InMake /\ pc = "done" /\ lcl.selmode = "section" /\ "number" \notin table.cols
        /\ lcl.set_idx >= 1 /\ PlainText(lcl.pool)) =>
        /\ resp.outcome = "ok"
        /\ Len(resp.args) = 2 * lcl.num_sets
        /\ \A i \in 1..Len(resp.args) : \E d \in pdfs : d.name = resp.args[i][2]

\* The spreadsheet rows whose number can be coerced to a number
NumericRows == { i \in 1..Len(table.rows) : to_numeric(table.rows[i].number).ok }
SrcOf(rows) == { rows[i].src : i \in 1..Len(rows) }
SelectionErrors ==
    {"excel_error", "no_valid_numbers", "bad_range_bounds", "start_gt_end",
     "empty_range"}

\* C17: in range mode the rows whose number cannot be coerced are dropped
\* before the range filter, and only they are: they are not in the frame the
\* range filter sees, not in the pool and not in a sample; and when the
\* bounds are valid and some numeric row lies in the range the request gets
\* past the selection stage whatever other rows the table holds.
C17_NonNumericDropped ==
    (InMake /\ lcl.selmode = "range" /\ HasEvent("filter_numeric")) =>
        /\ SrcOf(lcl.df) = NumericRows
        /\ SrcOf(lcl.pool) \subseteq NumericRows
        /\ SrcOf(lcl.sample) \subseteq NumericRows
        /\ \A i \in 1..Len(lcl.df) : lcl.df[i].number.k = "int"
        /\ (/\ pc \in {"done", "loop"}
            /\ lcl.start_tok # "unread"
            /\ ParseInt(lcl.start_tok).ok /\ ParseInt(lcl.end_tok).ok
            /\ ParseInt(lcl.start_tok).v <= ParseInt(lcl.end_tok).v
            /\ \E i \in NumericRows :
                  /\ ParseInt(lcl.start_tok).v <= IntegerValue(table.rows[i].number)
                  /\ IntegerValue(table.rows[i].number) <= ParseInt(lcl.end_tok).v) =>
             /\ resp.outcome \notin SelectionErrors
             /\ lcl.pool # <<>>

\* C17 witness: a table of a non-numeric and a numeric row; the numeric row
\* alone is in the pool and is sampled
C17_Witness ==
    /\ InMake /\ lcl.selmode = "range" /\ HasEvent("sample")
    /\ Len(table.rows) = 2
    /\ ~to_numeric(table.rows[1].number).ok
    /\ SrcOf(lcl.pool) = {2}
    /\ SrcOf(lcl.sample) = {2}

\* C18: every row of the filtered pool, hence every row that is sampled, has
\* a word and a meaning that are neither blank nor missing.
C18_PoolHasWordAndMeaning ==
    CriterionApplied =>
        /\ \A i \in 1..Len(lcl.pool) :
             lcl.pool[i].word.k = "text" /\ lcl.pool[i].meaning.k = "text"
        /\ \A i \in 1..Len(lcl.sample) :
             lcl.sample[i].word.k = "text" /\ lcl.sample[i].meaning.k = "text"

\* The limits in force for a tier: a daily tier limit <= 0 means the
\* absolute limit
EffectiveDailyLimit(tier) ==
    LET raw == IF tier = "auth" THEN AUTH_MAX_SETS_PER_DAY ELSE PUBLIC_MAX_SETS_PER_DAY
    IN  Min(IF raw <= 0 THEN ABSOLUTE_MAX_SETS_PER_DAY ELSE raw,
            ABSOLUTE_MAX_SETS_PER_DAY)
PerRequestLimit(is_auth) ==
    IF is_auth
    THEN IF AUTH_MAX_SETS_PER_REQUEST > 0
         THEN Min(AUTH_MAX_SETS_PER_REQUEST, ABSOLUTE_MAX_SETS_PER_REQUEST)
         ELSE ABSOLUTE_MAX_SETS_PER_REQUEST
    ELSE Min(PUBLIC_MAX_SETS_PER_REQUEST, ABSOLUTE_MAX_SETS_PER_REQUEST)

\* The request got as far as the limits
LimitsReached == InMake /\ pc \in {"done", "loop"} /\ lcl.cid # "none"

QuotaState ==
    /\ \A k \in DOMAIN usage : usage[k] <= EffectiveDailyLimit(k[2])
    /\ LimitsReached =>
         /\ (lcl.num_sets > PerRequestLimit(lcl.is_auth)) <=> (resp.outcome = "403")
         /\ resp.outcome = "403" => lcl.key = <<>>
         /\ resp.outcome # "403" =>
              /\ lcl.key[2] = _tier(lcl.is_auth) /\ lcl.key[3] = lcl.cid
              /\ (lcl.used + lcl.num_sets > EffectiveDailyLimit(lcl.key[2]))
                    <=> (resp.outcome = "429")
              /\ UsageGet(usage, lcl.key) =
                    IF resp.outcome = "429" THEN lcl.used
                    ELSE lcl.used + lcl.num_sets
QuotaStep == (pc = "idle" /\ resp'.outcome \in {"403", "429"}) => usage' = usage

\* C19: the usage recorded for every (day, tier, client) key never exceeds
\* the effective daily limit of the tier; a request whose num_sets would push
\* the counter of its key above that limit, and no other, ends with 429 and
\* leaves the counter as it was; a request whose num_sets exceeds the
\* per-request limit of its tier, and no other, ends with 403 before the
\* counter is read or written.
C19_DailyQuotaBounded == []QuotaState /\ [][QuotaStep]_vars

\* C19 witness: on the second day a public client that has used 9 of its 10
\* daily sets asks for 2 more, is refused with 429 and keeps 9
C19_Witness ==
    /\ InMake /\ resp.outcome = "429"
    /\ lcl.key = <<2, "public", "c1">>
    /\ lcl.used = 9 /\ lcl.num_sets = 2
    /\ usage[lcl.key] = 9

\* C20: a /make request that ends without a document (unknown file, missing
\* columns, invalid or empty selection, invalid mode, rendering failure)
\* leaves the counter of its client as it was before the request.
C20_ChargedOnlyOnSuccess ==
    (InMake /\ pc = "done" /\ resp.outcome # "ok" /\ lcl.key # <<>>) =>
        UsageGet(usage, lcl.key) = lcl.used

====
